---- MODULE Spec2Model ----
(***************************************************************************)
(* Model of the Moltbook agent (src/moltbook_agent.py): the streaming      *)
(* chat client PollinationsAI.chat, the authenticated Social Client        *)
(* MoltbookAgent._make_request and its operations, the conversation        *)
(* history kept by ask_ai, and the browsing pass autonomous_browse.        *)
(*                                                                         *)
(* Text is a sequence of one-character strings, so that substring search,  *)
(* upper-casing, stripping, splitting and joining are computed as Python   *)
(* computes them.  A JSON value decoded by json.loads / response.json is a *)
(* tagged record (JNull, JNum, JStr, JList, JObj).                         *)
(***************************************************************************)
EXTENDS Integers, Sequences, FiniteSets, TLC

VARIABLES
    api_key,               \* MoltbookConfig.api_key: None, "" or a key
    agent_info,            \* MoltbookAgent.agent_info
    conversation_history,  \* MoltbookAgent.conversation_history
    streaming,             \* AIConfig.streaming
    pc,                    \* where the coordinator is: "repl", or "loop" inside autonomous_browse
    feed,                  \* feed[:5], the items autonomous_browse iterates over
    idx,                   \* items of the pass already handled
    http_count,            \* HTTP requests issued to the Moltbook API by Social Client calls
    asks_done,             \* ask_ai calls that returned
    request,               \* the messages of the last chat request, and len(history) when it was built
    trace,                 \* the calls issued by the command in progress or just ended, in order
    last,                  \* the last operation and how it ended
    chat_in,               \* chat client alone: the answer of the endpoint and the stream flag
    chat_out,              \* chat client alone: what chat made of it
    dec_in,                \* decision dispatch alone: the decision text
    dec_out                \* decision dispatch alone: the calls issued for it

vars == <<api_key, agent_info, conversation_history, streaming, pc, feed, idx,
          http_count, asks_done, request, trace, last,
          chat_in, chat_out, dec_in, dec_out>>

agentVars == <<api_key, agent_info, conversation_history, streaming, pc, feed, idx,
               http_count, asks_done, request, trace, last>>

(***************************************************************************)
(* Bounds of the model.                                                    *)
(***************************************************************************)
MaxLines == 3     \* lines of one streamed response
MaxTokens == 3    \* tokens a decision text is built from
MaxTurns == 7     \* ask_ai calls of a session of questions
MaxPassAsks == 6  \* ask_ai calls of a session with browsing passes: a command starts
                  \* only while a whole pass still fits
MaxFeed == 6      \* posts of a feed answer
MaxHttp == 3      \* Moltbook requests of one Social Client session

(***************************************************************************)
(* Python str operations on text.                                          *)
(***************************************************************************)
Lower == <<"a","b","c","d","e","f","g","h","i","j","k","l","m",
           "n","o","p","q","r","s","t","u","v","w","x","y","z">>

Upper == <<"A","B","C","D","E","F","G","H","I","J","K","L","M",
           "N","O","P","Q","R","S","T","U","V","W","X","Y","Z">>

Whitespace == {" ", "\n", "\t", "\r"}

UpperChar(c) ==
    IF \E i \in 1..Len(Lower) : Lower[i] = c
    THEN Upper[CHOOSE i \in 1..Len(Lower) : Lower[i] = c]
    ELSE c

\* str.upper()
StrUpper(s) == [i \in 1..Len(s) |-> UpperChar(s[i])]

\* needle in hay
Contains(needle, hay) ==
    \E i \in 0..(Len(hay) - Len(needle)) : SubSeq(hay, i + 1, i + Len(needle)) = needle

\* str.strip()
Strip(s) ==
    LET keep == {i \in 1..Len(s) : s[i] \notin Whitespace}
    IN  IF keep = {} THEN <<>>
        ELSE LET lo == CHOOSE i \in keep : \A j \in keep : i <= j
                 hi == CHOOSE i \in keep : \A j \in keep : j <= i
             IN  SubSeq(s, lo, hi)

\* str.split('\n'): always at least one line
RECURSIVE Split(_)
Split(s) ==
    LET nl == {i \in 1..Len(s) : s[i] = "\n"}
    IN  IF nl = {} THEN <<s>>
        ELSE LET k == CHOOSE i \in nl : \A j \in nl : i <= j
             IN  <<SubSeq(s, 1, k - 1)>> \o Split(SubSeq(s, k + 1, Len(s)))

\* '\n'.join(lines)
RECURSIVE Join(_)
Join(lines) ==
    IF lines = <<>> THEN <<>>
    ELSE IF Len(lines) = 1 THEN lines[1]
    ELSE lines[1] \o <<"\n">> \o Join(Tail(lines))

RECURSIVE Concat(_)
Concat(parts) == IF parts = <<>> THEN <<>> ELSE Head(parts) \o Concat(Tail(parts))

(***************************************************************************)
(* Decoded JSON values and the Python operations the code applies to them. *)
(***************************************************************************)
JNull == [t |-> "null"]
JNum(n) == [t |-> "num", n |-> n]
JStr(s) == [t |-> "str", s |-> s]
JList(xs) == [t |-> "list", xs |-> xs]
JObj(f) == [t |-> "obj", f |-> f]
EmptyObj == JObj(<<>>)

\* bool(v): None, 0, "", [] and {} are falsy
Truthy(v) ==
    CASE v.t = "null" -> FALSE
      [] v.t = "num"  -> v.n # 0
      [] v.t = "str"  -> v.s # <<>>
      [] v.t = "list" -> v.xs # <<>>
      [] v.t = "obj"  -> DOMAIN v.f # {}

\* dict.get(key, default)
Get(obj, key, default) == IF key \in DOMAIN obj.f THEN obj.f[key] ELSE default

choicesText == <<"c","h","o","i","c","e","s">>

(***************************************************************************)
(* PollinationsAI.chat, lines 59-79: the streaming loop.                   *)
(* A line is [kind]: "empty" (b''), "badutf8" (bytes that do not decode),  *)
(* "reset" (iter_lines raises: the connection broke),                      *)
(* "text" (a line without the 'data: ' prefix), or "data" with a payload:  *)
(* "done" ('[DONE]' up to surrounding whitespace), "garbage" (json.loads   *)
(* raises JSONDecodeError) or "json" (json.loads returns v).               *)
(***************************************************************************)
Skipped == [raise |-> FALSE, text |-> <<>>]
Raised == [raise |-> TRUE, text |-> <<>>]

\* lines 69-75 for one decoded frame: the text it adds, or an uncaught
\* TypeError / KeyError / AttributeError (only json.JSONDecodeError is caught)
FrameContent(data) ==
    CASE data.t \in {"null", "num"} -> Raised              \* 'choices' in 5
      [] data.t = "str" ->
            IF Contains(choicesText, data.s) THEN Raised   \* "..."['choices']
            ELSE Skipped
      [] data.t = "list" ->
            IF \E i \in 1..Len(data.xs) : data.xs[i] = JStr(choicesText)
            THEN Raised                                    \* [...]['choices']
            ELSE Skipped
      [] data.t = "obj" ->
            IF "choices" \notin DOMAIN data.f THEN Skipped
            ELSE LET ch == data.f["choices"]
                 IN  CASE ch.t \in {"null", "num"} -> Raised            \* len(5)
                       [] ch.t = "str" ->
                             IF ch.s = <<>> THEN Skipped ELSE Raised    \* 'x'.get
                       [] ch.t = "obj" ->
                             IF DOMAIN ch.f = {} THEN Skipped ELSE Raised  \* {..}[0]
                       [] ch.t = "list" ->
                             IF ch.xs = <<>> THEN Skipped
                             ELSE LET c0 == ch.xs[1]
                                  IN  IF c0.t # "obj" THEN Raised       \* 5.get
                                      ELSE LET delta == Get(c0, "delta", EmptyObj)
                                           IN  IF delta.t # "obj" THEN Raised  \* None.get
                                               ELSE LET content == Get(delta, "content", JStr(<<>>))
                                                    IN  IF ~Truthy(content) THEN Skipped
                                                        ELSE IF content.t # "str" THEN Raised  \* str += 5
                                                        ELSE [raise |-> FALSE, text |-> content.s]

\* lines 60-79: the loop over response.iter_lines(), from line i on with
\* full_response = acc.  Result: [raise, text].
RECURSIVE StreamLoop(_, _, _)
StreamLoop(lines, i, acc) ==
    IF i > Len(lines) THEN [raise |-> FALSE, text |-> acc]
    ELSE LET line == lines[i]
         IN  CASE line.kind = "empty" -> StreamLoop(lines, i + 1, acc)
               [] line.kind = "badutf8" -> Raised          \* UnicodeDecodeError
               [] line.kind = "reset" -> Skipped           \* ChunkedEncodingError, line 84
               [] line.kind = "text" -> StreamLoop(lines, i + 1, acc)
               [] line.kind = "data" ->
                     CASE line.payload = "done" -> [raise |-> FALSE, text |-> acc]
                       [] line.payload = "garbage" -> StreamLoop(lines, i + 1, acc)
                       [] line.payload = "json" ->
                             LET fc == FrameContent(line.v)
                             IN  IF fc.raise THEN Raised
                                 ELSE StreamLoop(lines, i + 1, acc \o fc.text)

\* lines 81-82: data['choices'][0]['message']['content'] of the whole document
\* (documents whose content is present are taken to hold a string there).
\* Any other shape raises KeyError / IndexError / TypeError, which line 84
\* does not catch.
DocContent(doc) ==
    IF doc.t # "obj" THEN Raised
    ELSE IF "choices" \notin DOMAIN doc.f THEN Raised
    ELSE LET ch == doc.f["choices"]
         IN  IF ch.t # "list" \/ ch.xs = <<>> THEN Raised
             ELSE LET c0 == ch.xs[1]
                  IN  IF c0.t # "obj" \/ "message" \notin DOMAIN c0.f THEN Raised
                      ELSE LET msg == c0.f["message"]
                           IN  IF msg.t # "obj" \/ "content" \notin DOMAIN msg.f THEN Raised
                               ELSE [raise |-> FALSE, text |-> msg.f["content"].s]

\* chat without the except clause of lines 84-86
chat_uncaught(resp, stream) ==
    IF ~resp.ok THEN Raised
    ELSE IF stream THEN StreamLoop(resp.lines, 1, <<>>)
    ELSE IF resp.doc.p = "garbage" THEN Raised
    ELSE DocContent(resp.doc.v)

\* PollinationsAI.chat.  resp is what the endpoint answers: resp.ok = FALSE is
\* a RequestException from requests.post or raise_for_status (timeout,
\* connection error, non-2xx status), caught at line 84.  resp.doc.p is
\* "garbage" when response.json() raises requests' JSONDecodeError, which is a
\* RequestException too.
chat(resp, stream) ==
    IF ~resp.ok THEN [raise |-> FALSE, text |-> <<>>]
    ELSE IF stream THEN StreamLoop(resp.lines, 1, <<>>)
    ELSE IF resp.doc.p = "garbage" THEN [raise |-> FALSE, text |-> <<>>]
    ELSE DocContent(resp.doc.v)

(***************************************************************************)
(* Answers of the chat endpoint.                                           *)
(***************************************************************************)
EmptyLine == [kind |-> "empty"]
BadUtf8Line == [kind |-> "badutf8"]
ResetLine == [kind |-> "reset"]
TextLine == [kind |-> "text", payload |-> "ping"]       \* ': ping'
BareDone == [kind |-> "text", payload |-> "done"]       \* '[DONE]' without 'data: '
DoneLine == [kind |-> "data", payload |-> "done"]       \* 'data: [DONE]'
GarbageLine == [kind |-> "data", payload |-> "garbage"] \* 'data: {"choi'
DataLine(v) == [kind |-> "data", payload |-> "json", v |-> v]

Delta(v) == JObj([choices |-> JList(<<JObj([delta |-> v])>>)])
Frag(text) == DataLine(Delta(JObj([content |-> JStr(text)])))

tHel == <<"H","e","l">>
tLo == <<"l","o">>
tWorld == <<" ","w","o","r","l","d">>

NullDelta == DataLine(Delta(JNull))                      \* {"choices":[{"delta":null}]}
NumberFrame == DataLine(JNum(5))                         \* 5
ChoicesNotObjects == DataLine(JObj([choices |-> JList(<<JNum(5)>>)]))  \* {"choices":[5]}
NoChoices == DataLine(JObj([id |-> JStr(<<"x">>)]))      \* {"id":"x"}
EmptyChoices == DataLine(JObj([choices |-> JList(<<>>)]))  \* {"choices":[]}
EmptyDelta == DataLine(Delta(EmptyObj))                  \* {"choices":[{"delta":{}}]}

Lines == {EmptyLine, TextLine, BareDone, DoneLine, GarbageLine,
          Frag(tHel), Frag(tLo), Frag(tWorld),
          NullDelta, NumberFrame, ChoicesNotObjects, EmptyChoices}

RareLines == {BadUtf8Line, ResetLine, NoChoices, EmptyDelta}

SeqsUpTo(S, n) == UNION {[1..k -> S] : k \in 0..n}

Document(text) ==
    [p |-> "json",
     v |-> JObj([choices |-> JList(<<JObj([message |-> JObj([content |-> JStr(text)])])>>)])]

GarbageDocument == [p |-> "garbage"]
Documents == {Document(tHel), GarbageDocument,
              [p |-> "json", v |-> EmptyObj],
              [p |-> "json", v |-> JObj([choices |-> JList(<<>>)])],
              [p |-> "json", v |-> JObj([choices |-> JList(<<EmptyObj>>)])],
              [p |-> "json", v |-> JObj([choices |-> JList(<<JObj([message |-> EmptyObj])>>)])],
              [p |-> "json", v |-> JList(<<>>)]}

TransportFailure == [ok |-> FALSE, lines |-> <<>>, doc |-> GarbageDocument]
Streamed(lines) == [ok |-> TRUE, lines |-> lines, doc |-> GarbageDocument]
Whole(doc) == [ok |-> TRUE, lines |-> <<>>, doc |-> doc]

(***************************************************************************)
(* The Social Client: MoltbookAgent._make_request and its operations.      *)
(* An answer of the Moltbook API is [ok, body]: ok = FALSE is a            *)
(* RequestException (timeout, connection error, non-2xx status); the body  *)
(* is "empty" (response.text == ''), "garbage" (response.json() raises     *)
(* requests' JSONDecodeError) or "json" (the decoded value v).             *)
(***************************************************************************)
Methods == {"GET", "POST", "PATCH", "DELETE"}

\* lines 124-131: what _make_request returns once the request was sent
Body(answer) ==
    IF ~answer.ok THEN JNull
    ELSE CASE answer.body.p = "empty" -> EmptyObj
           [] answer.body.p = "garbage" -> JNull
           [] answer.body.p = "json" -> answer.body.v

\* the same without the credential check of lines 101-103
make_request_unguarded(method, answer) ==
    IF method \notin Methods THEN [result |-> JNull, sent |-> 0]
    ELSE [result |-> Body(answer), sent |-> 1]

\* _make_request: the result and the number of HTTP requests issued
make_request(method, answer) ==
    IF ~Truthy(api_key) THEN [result |-> JNull, sent |-> 0]
    ELSE IF method \notin Methods THEN [result |-> JNull, sent |-> 0]
    ELSE [result |-> Body(answer), sent |-> 1]

Failure == [ok |-> FALSE, body |-> [p |-> "empty"]]
EmptyBody == [ok |-> TRUE, body |-> [p |-> "empty"]]
GarbageBody == [ok |-> TRUE, body |-> [p |-> "garbage"]]
Json(v) == [ok |-> TRUE, body |-> [p |-> "json", v |-> v]]

Key1 == JStr(<<"k","1">>)
Key2 == JStr(<<"k","2">>)
Profile == JObj([name |-> JStr(<<"b","o","t">>)])
Registered == JObj([api_key |-> Key2])

SocialAnswers == {Failure, EmptyBody, GarbageBody, Json(Profile), Json(Registered), Json(JList(<<>>))}

Ended(op, outcome, result) ==
    [op |-> op, outcome |-> outcome, result |-> result, had_key |-> Truthy(api_key)]

\* 'api_key' in result, for the results the answers above give
HasApiKey(result) ==
    CASE result.t = "obj" -> "api_key" \in DOMAIN result.f
      [] result.t = "list" -> \E i \in 1..Len(result.xs) : result.xs[i] = JStr(<<"a","p","i","_","k","e","y">>)
      [] OTHER -> FALSE

\* a Social Client operation that only forwards to _make_request
Forward(op, method) ==
    /\ pc = "repl"
    /\ http_count < MaxHttp
    /\ \E a \in SocialAnswers :
          LET r == make_request(method, a)
          IN  /\ http_count' = http_count + r.sent
              /\ last' = Ended(op, "returned", r.result)
    /\ trace' = <<>>
    /\ UNCHANGED <<api_key, agent_info, conversation_history, streaming, pc, feed, idx,
                   asks_done, request, chat_in, chat_out, dec_in, dec_out>>

register ==
    /\ pc = "repl"
    /\ http_count < MaxHttp
    /\ \E a \in SocialAnswers :
          LET r == make_request("POST", a)
          IN  /\ http_count' = http_count + r.sent
              /\ api_key' = IF Truthy(r.result) /\ HasApiKey(r.result)
                            THEN r.result.f["api_key"] ELSE api_key
              /\ last' = Ended("register", "returned", r.result)
    /\ trace' = <<>>
    /\ UNCHANGED <<agent_info, conversation_history, streaming, pc, feed, idx,
                   asks_done, request, chat_in, chat_out, dec_in, dec_out>>

\* the operator types a key at the 'setkey' prompt (possibly nothing)
set_api_key ==
    /\ pc = "repl"
    /\ \E k \in {JStr(<<>>), Key1} :
          /\ api_key' = k
          /\ last' = Ended("set_api_key", "returned", JNull)
    /\ trace' = <<>>
    /\ UNCHANGED <<agent_info, conversation_history, streaming, pc, feed, idx, http_count,
                   asks_done, request, chat_in, chat_out, dec_in, dec_out>>

get_profile ==
    /\ pc = "repl"
    /\ http_count < MaxHttp
    /\ \E a \in SocialAnswers :
          LET r == make_request("GET", a)
          IN  /\ http_count' = http_count + r.sent
              /\ agent_info' = IF Truthy(r.result) THEN r.result ELSE agent_info
              /\ last' = Ended("get_profile", "returned", r.result)
    /\ trace' = <<>>
    /\ UNCHANGED <<api_key, conversation_history, streaming, pc, feed, idx,
                   asks_done, request, chat_in, chat_out, dec_in, dec_out>>

get_feed == Forward("get_feed", "GET")
get_post == Forward("get_post", "GET")
create_post == Forward("create_post", "POST")
add_comment == Forward("add_comment", "POST")
upvote_post == Forward("upvote_post", "POST")
downvote_post == Forward("downvote_post", "POST")
search == Forward("search", "GET")
list_submolts == Forward("list_submolts", "GET")
create_submolt == Forward("create_submolt", "POST")
subscribe_submolt == Forward("subscribe_submolt", "POST")

SocialOps == {"register", "get_profile", "get_feed", "get_post", "create_post",
              "add_comment", "upvote_post", "downvote_post", "search",
              "list_submolts", "create_submolt", "subscribe_submolt"}

(***************************************************************************)
(* autonomous_browse, lines 307-320: the decision text is interpreted and  *)
(* the action dispatched.  A call is [op, post_id, content, result]; the    *)
(* result of upvote_post and add_comment is ignored (lines 309, 317).      *)
(***************************************************************************)
tUPVOTE == <<"U","P","V","O","T","E">>
tCOMMENT == <<"C","O","M","M","E","N","T">>
tFallback == <<"I","n","t","e","r","e","s","t","i","n","g"," ","p","o","s","t","!">>

\* line 314 without the two strip() calls
comment_text_verbatim(decision) ==
    LET lines == Split(decision)
    IN  IF Len(lines) > 1 THEN Join(Tail(lines)) ELSE tFallback

\* lines 313-314
comment_text(decision) ==
    LET lines == Split(Strip(decision))
    IN  IF Len(lines) > 1 THEN Strip(Join(Tail(lines))) ELSE tFallback

\* lines 307-320 with the two tests in the other order
dispatch_comment_first(decision, post_id) ==
    IF Contains(tCOMMENT, StrUpper(decision))
    THEN <<[op |-> "add_comment", post_id |-> post_id, content |-> comment_text(decision),
           result |-> JNull]>>
    ELSE IF Contains(tUPVOTE, StrUpper(decision))
    THEN <<[op |-> "upvote_post", post_id |-> post_id, content |-> <<>>, result |-> JNull]>>
    ELSE <<>>

\* lines 307-320: the Social Client calls issued for one item
dispatch(decision, post_id) ==
    IF Contains(tUPVOTE, StrUpper(decision))
    THEN <<[op |-> "upvote_post", post_id |-> post_id, content |-> <<>>, result |-> JNull]>>
    ELSE IF Contains(tCOMMENT, StrUpper(decision))
    THEN <<[op |-> "add_comment", post_id |-> post_id, content |-> comment_text(decision),
           result |-> JNull]>>
    ELSE <<>>

(***************************************************************************)
(* MoltbookAgent.ask_ai, lines 229-249.                                    *)
(***************************************************************************)
HistoryWindow == 10    \* conversation_history[-10:]
ItemCap == 5           \* feed[:5]
ContentCap == 500      \* post_content[:500]

Min(a, b) == IF a < b THEN a ELSE b
Max(a, b) == IF a > b THEN a ELSE b

\* s[:n]
Take(s, n) == SubSeq(s, 1, Min(n, Len(s)))

\* the whole history instead of a slice of it
whole_history(h) == h

\* line 237: conversation_history[-10:]
window(h) == SubSeq(h, Max(Len(h) - HistoryWindow, 0) + 1, Len(h))

Message(role, content) == [role |-> role, content |-> content]

\* lines 231-240: the messages of the request
build_messages(user_message, system_prompt) ==
    (IF system_prompt # <<>> THEN <<Message("system", system_prompt)>> ELSE <<>>)
    \o window(conversation_history)
    \o <<Message("user", user_message)>>

\* lines 246-247 keeping only the reply
append_reply_only(user_message, response) ==
    conversation_history \o <<Message("assistant", response)>>

\* lines 246-247
append_turn(user_message, response) ==
    conversation_history \o <<Message("user", user_message), Message("assistant", response)>>

\* ask_ai: [raise, response, request, history]
ask_ai(user_message, system_prompt, answer) ==
    LET messages == build_messages(user_message, system_prompt)
        r == chat(answer, streaming)
    IN  [raise |-> r.raise,
         response |-> r.text,
         request |-> [messages |-> messages, hist |-> Len(conversation_history),
                      answer |-> answer],
         history |-> IF r.raise THEN conversation_history
                     ELSE append_turn(user_message, r.text)]

(***************************************************************************)
(* The chat client alone: chat applied to every answer within the bounds.  *)
(***************************************************************************)
NoOutput == [done |-> FALSE, raise |-> FALSE, text |-> <<>>]

StreamedAnswers ==
    {Streamed(ls) : ls \in SeqsUpTo(Lines, MaxLines)}
    \cup {Streamed(<<l1, l2>>) : l1 \in Lines \cup RareLines, l2 \in RareLines}
    \cup {Streamed(<<l1, l2>>) : l1 \in RareLines, l2 \in Lines}

ChatInputs ==
    {[resp |-> a, stream |-> TRUE] : a \in StreamedAnswers}
    \cup {[resp |-> Whole(d), stream |-> FALSE] : d \in Documents}
    \cup {[resp |-> TransportFailure, stream |-> b] : b \in BOOLEAN}

NoRequest == [messages |-> <<>>, hist |-> 0, answer |-> TransportFailure]

AgentIdle ==
    /\ api_key = JNull
    /\ agent_info = JNull
    /\ conversation_history = <<>>
    /\ streaming = TRUE
    /\ pc = "repl"
    /\ feed = <<>>
    /\ idx = 0
    /\ http_count = 0
    /\ asks_done = 0
    /\ request = NoRequest
    /\ trace = <<>>
    /\ last = [op |-> "init", outcome |-> "returned", result |-> JNull, had_key |-> FALSE]

InitChat ==
    /\ AgentIdle
    /\ chat_in \in ChatInputs
    /\ chat_out = NoOutput
    /\ dec_in = <<>>
    /\ dec_out = [done |-> FALSE, calls |-> <<>>]

\* chat(messages, stream=True)
ChatStreaming ==
    /\ ~chat_out.done
    /\ chat_in.stream
    /\ LET r == chat(chat_in.resp, TRUE)
       IN  chat_out' = [done |-> TRUE, raise |-> r.raise, text |-> r.text]
    /\ UNCHANGED <<agentVars, chat_in, dec_in, dec_out>>

\* chat(messages, stream=False)
ChatWhole ==
    /\ ~chat_out.done
    /\ ~chat_in.stream
    /\ LET r == chat(chat_in.resp, FALSE)
       IN  chat_out' = [done |-> TRUE, raise |-> r.raise, text |-> r.text]
    /\ UNCHANGED <<agentVars, chat_in, dec_in, dec_out>>

NextChat == ChatStreaming \/ ChatWhole

SpecChat == InitChat /\ [][NextChat]_vars

(***************************************************************************)
(* Claims about the chat client (SpecChat).                                *)
(***************************************************************************)
IsJsonFrame(line) == line.kind = "data" /\ line.payload = "json"

\* the frame has the shape the stream is documented to have
WellShaped(v) ==
    /\ v.t = "obj"
    /\ "choices" \in DOMAIN v.f =>
          /\ v.f["choices"].t = "list"
          /\ \A i \in 1..Len(v.f["choices"].xs) :
                LET c == v.f["choices"].xs[i]
                IN  /\ c.t = "obj"
                    /\ "delta" \in DOMAIN c.f =>
                          /\ c.f["delta"].t = "obj"
                          /\ "content" \in DOMAIN c.f["delta"].f =>
                                c.f["delta"].f["content"].t = "str"

Malformed(line) ==
    line.kind = "data" /\ (line.payload = "garbage" \/ (IsJsonFrame(line) /\ ~WellShaped(line.v)))

\* the content a valid fragment carries
FragmentText(line) ==
    IF /\ IsJsonFrame(line)
       /\ WellShaped(line.v)
       /\ "choices" \in DOMAIN line.v.f
       /\ line.v.f["choices"].xs # <<>>
       /\ "delta" \in DOMAIN line.v.f["choices"].xs[1].f
       /\ "content" \in DOMAIN line.v.f["choices"].xs[1].f["delta"].f
    THEN line.v.f["choices"].xs[1].f["delta"].f["content"].s
    ELSE <<>>

\* the lines that arrive before the first 'data: [DONE]'
BeforeDone(lines) ==
    LET d == {i \in 1..Len(lines) : lines[i] = DoneLine}
    IN  IF d = {} THEN lines
        ELSE SubSeq(lines, 1, (CHOOSE i \in d : \A j \in d : i <= j) - 1)

Expected(lines) ==
    LET b == BeforeDone(lines) IN Concat([i \in 1..Len(b) |-> FragmentText(b[i])])

\* every line before the sentinel was received and decodes
Received(lines) ==
    \A i \in 1..Len(BeforeDone(lines)) : BeforeDone(lines)[i].kind \notin {"reset", "badutf8"}

StreamedCall == chat_out.done /\ chat_in.stream /\ chat_in.resp.ok

\* C1: in streaming mode, for any sequence of received lines, chat returns the
\* concatenation, in arrival order, of the content of the valid fragments that
\* arrive before the first '[DONE]'.
C1_StreamAggregation ==
    (StreamedCall /\ Received(chat_in.resp.lines)) =>
        (~chat_out.raise /\ chat_out.text = Expected(chat_in.resp.lines))

\* C2: a malformed frame (undecodable, or decodable JSON of an unexpected
\* shape) before the sentinel never fails the response: chat does not raise
\* and returns the text aggregated from the other frames.
C2_MalformedFrameSkipped ==
    (/\ StreamedCall
     /\ Received(chat_in.resp.lines)
     /\ \E i \in 1..Len(BeforeDone(chat_in.resp.lines)) :
           Malformed(BeforeDone(chat_in.resp.lines)[i]))
    => (~chat_out.raise /\ chat_out.text = Expected(chat_in.resp.lines))

\* what does hold: with every frame well shaped, the aggregation is Expected
StreamAggregationOfWellShaped ==
    (/\ StreamedCall
     /\ Received(chat_in.resp.lines)
     /\ \A i \in 1..Len(BeforeDone(chat_in.resp.lines)) :
           IsJsonFrame(BeforeDone(chat_in.resp.lines)[i])
              => WellShaped(BeforeDone(chat_in.resp.lines)[i].v))
    => (~chat_out.raise /\ chat_out.text = Expected(chat_in.resp.lines))

(***************************************************************************)
(* The Social Client alone: the operator calls its operations in any       *)
(* order.  The credential comes from the environment (main, line 457):     *)
(* unset, empty or a key.                                                  *)
(***************************************************************************)
InitSocial ==
    /\ api_key \in {JNull, JStr(<<>>), Key1}
    /\ agent_info = JNull
    /\ conversation_history = <<>>
    /\ streaming = TRUE
    /\ pc = "repl"
    /\ feed = <<>>
    /\ idx = 0
    /\ http_count = 0
    /\ asks_done = 0
    /\ request = NoRequest
    /\ trace = <<>>
    /\ last = [op |-> "init", outcome |-> "returned", result |-> JNull, had_key |-> FALSE]
    /\ chat_in = [resp |-> TransportFailure, stream |-> TRUE]
    /\ chat_out = NoOutput
    /\ dec_in = <<>>
    /\ dec_out = [done |-> FALSE, calls |-> <<>>]

NextSocial ==
    \/ register
    \/ set_api_key
    \/ get_profile
    \/ get_feed
    \/ get_post
    \/ create_post
    \/ add_comment
    \/ upvote_post
    \/ downvote_post
    \/ search
    \/ list_submolts
    \/ create_submolt
    \/ subscribe_submolt

SpecSocial == InitSocial /\ [][NextSocial]_vars

tGreatPoint == <<"G","r","e","a","t"," ","p","o","i","n","t","!">>

Tokens == {tUPVOTE, <<"u","p","v","o","t","e">>, tCOMMENT, <<"C","o","m","m","e","n","t">>,
           <<"S","K","I","P">>, <<"\n">>, <<" ">>, tGreatPoint}

DecisionTexts == {Concat(ts) : ts \in SeqsUpTo(Tokens, MaxTokens)}

PostIds == {<<"p","1">>, <<"p","2">>}

InitDecide ==
    /\ AgentIdle
    /\ chat_in = [resp |-> TransportFailure, stream |-> TRUE]
    /\ chat_out = NoOutput
    /\ dec_in \in DecisionTexts
    /\ dec_out = [done |-> FALSE, calls |-> <<>>]

Interpret ==
    /\ ~dec_out.done
    /\ \E id \in PostIds : dec_out' = [done |-> TRUE, calls |-> dispatch(dec_in, id)]
    /\ UNCHANGED <<agentVars, chat_in, chat_out, dec_in>>

NextDecide == Interpret

SpecDecide == InitDecide /\ [][NextDecide]_vars

Calls(op) == {i \in 1..Len(dec_out.calls) : dec_out.calls[i].op = op}

\* a case-insensitive occurrence of word in text, found letter by letter
Occurs(word, text) ==
    \E k \in 1..Len(text) :
        /\ k + Len(word) - 1 <= Len(text)
        /\ \A j \in 1..Len(word) :
              \/ text[k + j - 1] = word[j]
              \/ \E a \in 1..Len(Lower) : Upper[a] = word[j] /\ Lower[a] = text[k + j - 1]

\* C4: for every decision text exactly one of three outcomes happens: with
\* "UPVOTE" (case-insensitive) in the text one upvote call and no comment call,
\* even when "COMMENT" appears too; otherwise with "COMMENT" one comment call
\* and no upvote call; otherwise no Social Client call.
C4_OneOutcome ==
    dec_out.done =>
        /\ Occurs(tUPVOTE, dec_in) =>
              (Cardinality(Calls("upvote_post")) = 1 /\ Len(dec_out.calls) = 1)
        /\ (~Occurs(tUPVOTE, dec_in) /\ Occurs(tCOMMENT, dec_in)) =>
              (Cardinality(Calls("add_comment")) = 1 /\ Len(dec_out.calls) = 1)
        /\ (~Occurs(tUPVOTE, dec_in) /\ ~Occurs(tCOMMENT, dec_in)) =>
              dec_out.calls = <<>>

\* a reply naming both keywords was dispatched as an upvote
C4_Witness ==
    /\ dec_out.done
    /\ Occurs(tUPVOTE, dec_in)
    /\ Occurs(tCOMMENT, dec_in)
    /\ Cardinality(Calls("upvote_post")) = 1
    /\ Calls("add_comment") = {}

IsComment == dec_out.done /\ Len(dec_out.calls) = 1 /\ dec_out.calls[1].op = "add_comment"

FirstNewline(text) ==
    CHOOSE i \in 1..Len(text) : text[i] = "\n" /\ \A j \in 1..(i - 1) : text[j] # "\n"

HasNewline(text) == \E i \in 1..Len(text) : text[i] = "\n"

\* what follows the first line of text (nothing when there is one line only)
Remainder(text) ==
    IF HasNewline(text) THEN SubSeq(text, FirstNewline(text) + 1, Len(text)) ELSE <<>>

\* C5 as claimed: the comment body is the remainder of the reply after its
\* first line, verbatim; with nothing after the first line it is the fallback.
C5_VerbatimRemainder ==
    IsComment =>
        dec_out.calls[1].content =
            IF Remainder(dec_in) # <<>> THEN Remainder(dec_in) ELSE tFallback

\* C5 as amended: the reply is stripped of surrounding whitespace first; the
\* body is what follows the first line of the stripped reply, itself stripped
\* of surrounding whitespace; with no line after the first it is the fallback.
C5_StrippedRemainder ==
    IsComment =>
        LET reply == Strip(dec_in)
        IN  dec_out.calls[1].content =
                IF HasNewline(reply)
                THEN Strip(SubSeq(reply, FirstNewline(reply) + 1, Len(reply)))
                ELSE tFallback

\* "COMMENT\nGreat point!" was sent as "Great point!"
C5_Witness ==
    /\ IsComment
    /\ dec_in = tCOMMENT \o <<"\n">> \o tGreatPoint
    /\ dec_out.calls[1].content = tGreatPoint

(***************************************************************************)
(* The coordinator: the operator asks questions (ask_ai) and starts        *)
(* browsing passes (autonomous_browse, heartbeat).  The fetch stage of a   *)
(* pass (lines 255-271) is one step, each iteration of the loop (lines     *)
(* 274-323) is one step; the last iteration also returns.                  *)
(***************************************************************************)
Digits == <<"1","2","3","4","5","6","7","8","9">>
PostId(i) == <<"p", Digits[i]>>
PostTitle(i) == <<"T", Digits[i]>>
Post(i) == JObj([id |-> JStr(PostId(i)), title |-> JStr(PostTitle(i)),
                 content |-> JStr(<<"b">>)])
\* a link post: created with a url and no content
LinkPost == JObj([id |-> JStr(<<"p","0">>), title |-> JStr(<<"T","0">>), content |-> JNull])
FeedOf(n) == JList([i \in 1..n |-> Post(i)])

FeedAnswers ==
    {Failure, Json(JList(<<>>)), Json(Profile), Json(JList(<<Post(1), LinkPost>>))}
    \cup {Json(FeedOf(n)) : n \in 1..MaxFeed}

ProfileAnswers == {Failure, EmptyBody, Json(Profile), Json(FeedOf(1))}

tQuestion == <<"q","?">>
tSystem == <<"s","y","s">>

AnswerOf(lines, doc) == [ok |-> TRUE, lines |-> lines, doc |-> doc]

\* what the chat endpoint answers during a session: in streaming mode the
\* lines, otherwise the document
AgentChatAnswers ==
    {TransportFailure,
     AnswerOf(<<Frag(tUPVOTE), DoneLine>>, Document(tUPVOTE)),
     AnswerOf(<<Frag(tCOMMENT), GarbageLine, Frag(<<"\n">> \o tGreatPoint), DoneLine>>,
              Document(tCOMMENT \o <<"\n">> \o tGreatPoint)),
     AnswerOf(<<Frag(tUPVOTE), NullDelta>>, [p |-> "json", v |-> EmptyObj])}

\* an entry of the trace: a call with its arguments, or a fetch with its result
Call(op, post_id, content) ==
    [op |-> op, post_id |-> post_id, content |-> content, result |-> JNull]
Returned(op, result) == [op |-> op, post_id |-> <<>>, content |-> <<>>, result |-> result]

\* lines 276-280 and 292: the fields of a post the prompt needs
ItemFields(post) ==
    IF post.t # "obj" THEN [raise |-> TRUE, id |-> <<>>, context |-> <<>>]
    ELSE LET content == Get(post, "content", JStr(<<>>))
             title == Get(post, "title", JStr(<<"U","n","t","i","t","l","e","d">>))
             id == Get(post, "id", JStr(<<>>))
         IN  IF content.t # "str" THEN [raise |-> TRUE, id |-> <<>>, context |-> <<>>]
             ELSE [raise |-> FALSE, id |-> id.s,
                   context |-> <<"T",":">> \o title.s \o <<"C",":">> \o Take(content.s, ContentCap)]

\* main, lines 457-464: the key comes from the environment, the chat
\* configuration is AIConfig() with streaming on
Init ==
    /\ api_key \in {JNull, Key1}
    /\ agent_info = JNull
    /\ conversation_history = <<>>
    /\ streaming = TRUE
    /\ pc = "repl"
    /\ feed = <<>>
    /\ idx = 0
    /\ http_count = 0
    /\ asks_done = 0
    /\ request = NoRequest
    /\ trace = <<>>
    /\ last = [op |-> "init", outcome |-> "returned", result |-> JNull, had_key |-> FALSE]
    /\ chat_in = [resp |-> TransportFailure, stream |-> TRUE]
    /\ chat_out = NoOutput
    /\ dec_in = <<>>
    /\ dec_out = [done |-> FALSE, calls |-> <<>>]

aloneVars == <<chat_in, chat_out, dec_in, dec_out>>

\* ask_ai called directly, with or without a system prompt (example.py, line 42)
ask ==
    /\ pc = "repl"
    /\ asks_done < MaxTurns
    /\ \E sys \in {<<>>, tSystem}, a \in AgentChatAnswers :
          LET r == ask_ai(tQuestion, sys, a)
          IN  /\ request' = r.request
              /\ conversation_history' = r.history
              /\ asks_done' = IF r.raise THEN asks_done ELSE asks_done + 1
              /\ last' = IF r.raise THEN Ended("ask_ai", "raised", JNull)
                         ELSE Ended("ask_ai", "returned", JStr(r.response))
    /\ trace' = <<Call("chat", <<>>, <<>>)>>
    /\ UNCHANGED <<api_key, agent_info, streaming, pc, feed, idx, http_count, aloneVars>>

\* the 'ask' command of interactive_mode, lines 435-440
ask_command ==
    /\ pc = "repl"
    /\ asks_done + ItemCap <= MaxPassAsks
    /\ \E a \in AgentChatAnswers :
          LET r == ask_ai(tQuestion, <<>>, a)
          IN  /\ request' = r.request
              /\ conversation_history' = r.history
              /\ asks_done' = IF r.raise THEN asks_done ELSE asks_done + 1
              /\ last' = IF r.raise THEN Ended("ask_ai", "raised", JNull)
                         ELSE Ended("ask_ai", "returned", JStr(r.response))
    /\ trace' = <<Call("chat", <<>>, <<>>)>>
    /\ UNCHANGED <<api_key, agent_info, streaming, pc, feed, idx, http_count, aloneVars>>

\* line 267 testing only the type
feed_not_a_list(f) == f.t # "list"

\* line 267: not feed or not isinstance(feed, list)
feed_unusable(f) == ~Truthy(f) \/ f.t # "list"

\* autonomous_browse, lines 255-271, after the calls in `before`
Fetch(before) ==
    \E pa \in ProfileAnswers :
        LET profile == make_request("GET", pa).result
            t1 == before \o <<Returned("get_profile", profile)>>
        IN  /\ agent_info' = IF Truthy(profile) THEN profile ELSE agent_info
            /\ IF ~Truthy(profile)
               THEN /\ trace' = t1
                    /\ last' = Ended("autonomous_browse", "abort_profile", profile)
                    /\ UNCHANGED <<pc, feed, idx>>
               ELSE IF profile.t # "obj"                 \* profile.get on a list
               THEN /\ trace' = t1
                    /\ last' = Ended("autonomous_browse", "raised", JNull)
                    /\ UNCHANGED <<pc, feed, idx>>
               ELSE \E fa \in FeedAnswers :
                       LET f == make_request("GET", fa).result
                           t2 == t1 \o <<Returned("get_feed", f)>>
                       IN  IF feed_unusable(f)
                           THEN /\ trace' = t2
                                /\ last' = Ended("autonomous_browse", "abort_feed", f)
                                /\ UNCHANGED <<pc, feed, idx>>
                           ELSE /\ trace' = t2
                                /\ last' = Ended("autonomous_browse", "running", f)
                                /\ pc' = "loop"
                                /\ feed' = Take(f.xs, ItemCap)
                                /\ idx' = 0

autonomous_browse ==
    /\ pc = "repl"
    /\ asks_done + ItemCap <= MaxPassAsks
    /\ Fetch(<<>>)
    /\ UNCHANGED <<api_key, conversation_history, streaming, http_count, asks_done,
                   request, aloneVars>>

\* heartbeat, lines 327-339
heartbeat ==
    /\ pc = "repl"
    /\ asks_done + ItemCap <= MaxPassAsks
    /\ \E pa \in ProfileAnswers :
          LET profile == make_request("GET", pa).result
          IN  IF ~Truthy(profile)
              THEN /\ trace' = <<Returned("get_profile", profile)>>
                   /\ last' = Ended("heartbeat", "returned", profile)
                   /\ UNCHANGED <<agent_info, pc, feed, idx>>
              ELSE IF profile.t # "obj"
              THEN /\ trace' = <<Returned("get_profile", profile)>>
                   /\ agent_info' = profile
                   /\ last' = Ended("heartbeat", "raised", JNull)
                   /\ UNCHANGED <<pc, feed, idx>>
              ELSE Fetch(<<Returned("get_profile", profile)>>)
    /\ UNCHANGED <<api_key, conversation_history, streaming, http_count, asks_done,
                   request, aloneVars>>

\* one iteration of the loop, lines 274-323
browse_item ==
    /\ pc = "loop"
    /\ idx < Len(feed)
    /\ LET item == ItemFields(feed[idx + 1])
       IN  IF item.raise
           THEN /\ pc' = "repl"
                /\ last' = Ended("autonomous_browse", "raised", JNull)
                /\ UNCHANGED <<conversation_history, asks_done, request, trace, idx>>
           ELSE \E a \in AgentChatAnswers :
                   LET r == ask_ai(item.context, <<>>, a)
                       asked == trace \o <<Call("chat", item.id, <<>>)>>
                   IN  /\ request' = r.request
                       /\ conversation_history' = r.history
                       /\ IF r.raise
                          THEN /\ pc' = "repl"
                               /\ last' = Ended("autonomous_browse", "raised", JNull)
                               /\ trace' = asked
                               /\ UNCHANGED <<asks_done, idx>>
                          ELSE /\ asks_done' = asks_done + 1
                               /\ trace' = asked \o dispatch(r.response, item.id)
                                                 \o <<Call("sleep", item.id, <<>>)>>
                               /\ idx' = idx + 1
                               /\ IF idx + 1 = Len(feed)
                                  THEN /\ pc' = "repl"
                                       /\ last' = Ended("autonomous_browse", "complete", JNull)
                                  ELSE UNCHANGED <<pc, last>>
    /\ UNCHANGED <<api_key, agent_info, streaming, feed, http_count, aloneVars>>

\* an agent built with either chat configuration (AIConfig(streaming=...))
InitAsk ==
    /\ api_key = JNull
    /\ agent_info = JNull
    /\ conversation_history = <<>>
    /\ streaming \in BOOLEAN
    /\ pc = "repl"
    /\ feed = <<>>
    /\ idx = 0
    /\ http_count = 0
    /\ asks_done = 0
    /\ request = NoRequest
    /\ trace = <<>>
    /\ last = [op |-> "init", outcome |-> "returned", result |-> JNull, had_key |-> FALSE]
    /\ chat_in = [resp |-> TransportFailure, stream |-> TRUE]
    /\ chat_out = NoOutput
    /\ dec_in = <<>>
    /\ dec_out = [done |-> FALSE, calls |-> <<>>]

NextAsk == ask

SpecAsk == InitAsk /\ [][NextAsk]_vars

Next ==
    \/ ask_command
    \/ autonomous_browse
    \/ heartbeat
    \/ browse_item

Spec == Init /\ [][Next]_vars

(***************************************************************************)
(* Claims about the conversation history (SpecAsk).                        *)
(***************************************************************************)
\* the history entries of the last request: its messages without the system
\* prompt in front and the new user message at the end
SentWindow ==
    LET m == request.messages
        first == IF m[1].role = "system" THEN 2 ELSE 1
    IN  SubSeq(m, first, Len(m) - 1)

\* C3: the history entries of an outbound chat request are exactly the most
\* recent min(10, len(history)) entries, in their order, so never more than
\* 10; the history itself is not truncated.
C3_WindowIsLastTen ==
    request.messages # <<>> =>
        LET n == request.hist
            w == SentWindow
        IN  /\ Len(w) = (IF n < 10 THEN n ELSE 10)
            /\ Len(conversation_history) >= n
            /\ \A i \in 1..Len(w) : w[i] = conversation_history[n - Len(w) + i]

\* a request built from a history of more than 10 entries carried 10 of them
C3_Witness ==
    /\ request.hist > 10
    /\ Len(SentWindow) = 10
    /\ SentWindow[1] = conversation_history[request.hist - 9]

\* C10: every ask_ai call that returns appends exactly two entries, the user
\* prompt then the assistant reply, whatever the reply is, and leaves the
\* earlier entries unchanged; after k calls the history has 2k entries with
\* roles alternating user, assistant.
C10_AppendOnly ==
    /\ [](/\ Len(conversation_history) = 2 * asks_done
          /\ \A i \in 1..Len(conversation_history) :
                conversation_history[i].role = (IF i % 2 = 1 THEN "user" ELSE "assistant"))
    /\ [][/\ asks_done' = asks_done => conversation_history' = conversation_history
          /\ asks_done' # asks_done =>
                /\ asks_done' = asks_done + 1
                /\ Len(conversation_history') = Len(conversation_history) + 2
                /\ SubSeq(conversation_history', 1, Len(conversation_history)) = conversation_history
                /\ conversation_history'[Len(conversation_history) + 1] =
                      request'.messages[Len(request'.messages)]
                /\ conversation_history'[Len(conversation_history) + 2] =
                      [role |-> "assistant", content |-> last'.result.s]]_vars

\* three calls returned, the last one with the empty reply of a failed request
C10_Witness ==
    /\ asks_done = 3
    /\ Len(conversation_history) = 6
    /\ conversation_history[6] = [role |-> "assistant", content |-> <<>>]
    /\ conversation_history[2].content = tUPVOTE

(***************************************************************************)
(* Claims about the browsing pass (Spec).                                  *)
(***************************************************************************)
TraceOps(t) == {t[i].op : i \in 1..Len(t)}

\* the fetch recorded at position i of the trace failed
FailedProfile(t, i) == t[i].op = "get_profile" /\ ~Truthy(t[i].result)
FailedFeed(t, i) == t[i].op = "get_feed" /\ (t[i].result.t # "list" \/ t[i].result.xs = <<>>)

\* C7: a pass whose fetch stage aborts issues no per-item call: after a failed
\* profile fetch the feed is not requested; after a failed or empty feed fetch
\* there is no chat request, no upvote, no comment, and the history is unchanged.
C7_AbortedPassDoesNothing ==
    [][\A i \in 1..Len(trace') :
          (FailedProfile(trace', i) \/ FailedFeed(trace', i)) =>
              /\ i = Len(trace')
              /\ pc' = "repl"
              /\ TraceOps(trace') \cap {"chat", "upvote_post", "add_comment"} = {}
              /\ FailedProfile(trace', i) => "get_feed" \notin TraceOps(trace')
              /\ conversation_history' = conversation_history
              /\ request' = request
              /\ asks_done' = asks_done]_vars

\* a pass ended on an empty feed, after a turn of conversation
C7_Witness ==
    /\ last.op = "autonomous_browse"
    /\ last.outcome = "abort_feed"
    /\ trace = <<Returned("get_profile", Profile), Returned("get_feed", JList(<<>>))>>
    /\ asks_done = 1
    /\ pc = "repl"

\* C8: no exception crosses the Coordinator boundary: whatever a collaborator
\* answers, ask_ai and autonomous_browse return normally.
C8_NoExceptionCrosses == last.outcome # "raised"

\* C9: when the chat request fails in transport, chat returns '' and the pass
\* treats the item as Skip: no upvote and no comment call for it, the turn is
\* recorded with the empty reply, and the pass goes on with the next item.
ChatIssued == Len(trace') > Len(trace) /\ trace'[Len(trace) + 1].op = "chat"

C9_FailedChatIsSkip ==
    [][(pc = "loop" /\ ChatIssued /\ ~request'.answer.ok) =>
          /\ trace' = trace \o <<Call("chat", trace'[Len(trace) + 1].post_id, <<>>),
                                 Call("sleep", trace'[Len(trace) + 1].post_id, <<>>)>>
          /\ conversation_history'[Len(conversation_history')] =
                [role |-> "assistant", content |-> <<>>]
          /\ idx' = idx + 1
          /\ last'.outcome # "raised"
          /\ IF idx' < Len(feed) THEN pc' = "loop" /\ ENABLED browse_item
             ELSE pc' = "repl" /\ last'.outcome = "complete"]_vars

\* the chat request of the first item failed and the pass is at the second
C9_Witness ==
    /\ pc = "loop"
    /\ idx = 1
    /\ Len(feed) > 1
    /\ ~request.answer.ok
    /\ trace[Len(trace)].op = "sleep"
    /\ trace[Len(trace) - 1].op = "chat"
    /\ conversation_history[2] = [role |-> "assistant", content |-> <<>>]

\* the position of the feed fetch in the trace of a pass, 0 when there is none
FeedAt(t) ==
    IF \E i \in 1..Len(t) : t[i].op = "get_feed"
    THEN CHOOSE i \in 1..Len(t) : t[i].op = "get_feed"
    ELSE 0

\* the items the pass received, and what it did after receiving them
Received_feed(t) == t[FeedAt(t)].result.xs
AfterFeed(t) == SubSeq(t, FeedAt(t) + 1, Len(t))

\* the positions of the chat requests in a trace, in order
ChatsAt(t) == {i \in 1..Len(t) : t[i].op = "chat"}
NthChat(t, k) == CHOOSE i \in ChatsAt(t) : Cardinality({j \in ChatsAt(t) : j <= i}) = k

\* what the pass did for its k-th item: from after the k-th chat request up to
\* the next chat request, or to the end of the trace
ItemSegment(t, k) ==
    LET from == NthChat(t, k) + 1
        to   == IF k < Cardinality(ChatsAt(t)) THEN NthChat(t, k + 1) - 1 ELSE Len(t)
    IN  SubSeq(t, from, to)

\* at most one Social Client action, on the item, and then the fixed delay
HandledOnce(seg, id) ==
    \/ seg = <<Call("sleep", id, <<>>)>>
    \/ /\ Len(seg) = 2
       /\ seg[1].op \in {"upvote_post", "add_comment"}
       /\ seg[1].post_id = id
       /\ seg[2] = Call("sleep", id, <<>>)

\* a pass over a non-empty feed is over
PassOver ==
    /\ pc = "repl"
    /\ last.op = "autonomous_browse"
    /\ FeedAt(trace) > 0
    /\ trace[FeedAt(trace)].result.t = "list"
    /\ Received_feed(trace) # <<>>

\* C11: a pass over a non-empty feed of L items ends after handling exactly the
\* first min(L, 5) items in feed order: min(L, 5) chat requests, one per item
\* and in feed order, each followed by at most one Social Client action on that
\* item and then by the fixed delay, before the next item's chat request.
C11_HandlesFirstFive ==
    PassOver =>
        LET items == Received_feed(trace)
            done  == AfterFeed(trace)
            n     == Min(Len(items), ItemCap)
        IN  /\ Cardinality(ChatsAt(done)) = n
            /\ done[1].op = "chat"
            /\ \A k \in 1..n :
                  /\ done[NthChat(done, k)].post_id = items[k].f.id.s
                  /\ HandledOnce(ItemSegment(done, k), items[k].f.id.s)

\* the same, of the passes that no exception ended
C11_CompletedPassHandlesFirstFive ==
    last.outcome # "raised" => C11_HandlesFirstFive

\* a pass over six items ran to its end
C11_LongFeedCompleted ==
    /\ PassOver
    /\ last.outcome = "complete"
    /\ Len(Received_feed(trace)) > ItemCap

\* a register call has just ended
RegisterEnded == last'.op = "register" /\ last' # last

\* C12: from a state with no API key, register issues the registration
\* request, and when the endpoint answers with an 'api_key' field the key is
\* stored in the configuration, so that the operations after it are sent.
C12_RegisterObtainsKey ==
    [][(~Truthy(api_key) /\ RegisterEnded) =>
          /\ http_count' = http_count + 1
          /\ HasApiKey(last'.result) =>
                /\ api_key' = last'.result.f["api_key"]
                /\ Truthy(api_key')]_vars

\* the same, of a register call made with a key already set: the request is
\* issued and the key of the answer replaces the one the agent had
C12_RegisterWithKeyReplacesKey ==
    [][(Truthy(api_key) /\ last'.op = "register" /\ http_count' # http_count) =>
          /\ http_count' = http_count + 1
          /\ HasApiKey(last'.result) => api_key' = last'.result.f["api_key"]
          /\ ~HasApiKey(last'.result) => api_key' = api_key]_vars

\* register stored the key of the endpoint's answer
C12_KeyReplaced == last.op = "register" /\ HasApiKey(last.result) /\ api_key = Key2

\* without a key, no register call stores one
C12_NoKeyRegisterStoresNothing ==
    [][(~Truthy(api_key) /\ last'.op = "register") =>
          /\ api_key' = api_key
          /\ http_count' = http_count
          /\ last'.result = JNull]_vars

====
